---- MODULE Spec2Model ----
(***************************************************************************)
(* A model of the blog application in src/blogicum/blog: the request       *)
(* handlers of views.py, the forms of forms.py and the routes of urls.py,  *)
(* over a database of users, categories, posts and comments.               *)
(*                                                                         *)
(* One action models one request to one route, from the first line of the  *)
(* handler's dispatch to the response it returns.  The variable `last`     *)
(* holds the request just handled and the response it was given.           *)
(***************************************************************************)
EXTENDS Integers, Sequences, FiniteSets, TLC

(***************************************************************************)
(* Bounds of the model.                                                    *)
(***************************************************************************)
\* posts ever created in Spec (primary keys are never reused)
MaxPosts == 1
\* comments ever created in Spec
MaxComments == 1
\* changes of a username in Spec
MaxRenames == 1
\* publish dates run over 0..MaxTime
MaxTime == 2
\* the clock runs over 0..LastTick
LastTick == 1
\* clock ticks in one calendar day
TicksPerDay == 2
\* posts in the database of SpecPaginate
PageMaxPosts == 21
\* largest ?page= number requested in SpecPaginate
MaxPageArg == 4

(***************************************************************************)
(* Program constants.                                                      *)
(***************************************************************************)
\* Paginator(post_list, 10), paginate_by = 10
PER_PAGE == 10

(***************************************************************************)
(* The data the handlers work on.                                          *)
(***************************************************************************)
\* request.user of a client that is not logged in (AnonymousUser)
Anonymous == 0
\* primary keys of the registered users
Users == {1, 2}
Requesters == Users \cup {Anonymous}
\* usernames: one more than there are users, so that one is always free
Names == {"ann", "bob", "eve"}
\* the categories of the site, slug |-> is_published.  No view of urls.py
\* makes, hides or deletes a category: the site has one that is shown and one
\* that is hidden, and every post has a category (PostForm requires it)
categories == ("open" :> TRUE) @@ ("closed" :> FALSE)
Slugs == DOMAIN categories
\* a slug no category has
NoSlug == "nosuch"
Times == 0..MaxTime
Texts == {"a", "b"}
Methods == {"GET", "POST"}

VARIABLES
    posts,          \* Post table: pk |-> [author, pub_date, is_published, category]
    comments,       \* Comment table: pk |-> [author, post, text]
    username,       \* User table: pk |-> username
    last_post_id,   \* the Post table's auto-increment counter
    last_comment_id,\* the Comment table's auto-increment counter
    renames,        \* how often a username has changed
    now,            \* timezone.now()
    last,           \* the request just handled, and its response
    post_creator,   \* history: post pk |-> the user whose request created it
    comment_origin  \* history: comment pk |-> [user, pk] of the request that created it

vars == <<posts, comments, username, last_post_id, last_comment_id, renames, now, last,
          post_creator, comment_origin>>
db == <<posts, comments, username, last_post_id, last_comment_id, renames>>
history == <<post_creator, comment_origin>>

Min(a, b) == IF a <= b THEN a ELSE b

\* the calendar date of a moment (the __date transform, and the date a
\* datetime is cut down to when it is compared with a date)
Date(t) == t \div TicksPerDay

(***************************************************************************)
(* Responses.                                                              *)
(***************************************************************************)
NoTarget == [name |-> "", pk |-> 0, arg |-> ""]
LoginUrl == [name |-> "login", pk |-> 0, arg |-> ""]
PostDetailUrl(pk) == [name |-> "blog:post_detail", pk |-> pk, arg |-> ""]
ProfileUrl(name) == [name |-> "blog:profile", pk |-> 0, arg |-> name]
IndexUrl == [name |-> "blog:index", pk |-> 0, arg |-> ""]

\* a request as the router hands it to a view
Request(view, method, user, pk, cid, arg, pageno) ==
    [view |-> view, method |-> method, user |-> user, pk |-> pk, cid |-> cid,
     arg |-> arg, pageno |-> pageno]

\* the response a view gives: its status, the redirect's target, the posts of
\* the page it renders, the page's number and the paginator's page count,
\* and what the request did to the database
Response(status, to, page, number, num_pages, effect) ==
    [status |-> status, to |-> to, page |-> page, number |-> number,
     num_pages |-> num_pages, effect |-> effect]

Ok == Response("ok", NoTarget, <<>>, 0, 0, "none")
NotFound == Response("notfound", NoTarget, <<>>, 0, 0, "none")
Redirect(to) == Response("redirect", to, <<>>, 0, 0, "none")
Done(to, effect) == Response("redirect", to, <<>>, 0, 0, effect)
Listing(page, number, num_pages) == Response("ok", NoTarget, page, number, num_pages, "none")

NoRequest == [req |-> Request("", "", Anonymous, 0, 0, "", <<>>),
              resp |-> Response("", NoTarget, <<>>, 0, 0, "none")]

(***************************************************************************)
(* forms.py.  A model form reads from the submitted data the fields it     *)
(* declares and leaves every other field of the instance as it is.         *)
(* Of a post the model keeps the author, the publish date, the visibility  *)
(* flag and the category; of a comment the author, the post and the text.  *)
(***************************************************************************)
PostFields == {"author", "pub_date", "is_published", "category"}
CommentFields == {"author", "post", "text"}

\* PostForm: a mutant that forgets the exclusion of the author
PostFormFields_KeepsAuthor == PostFields
\* PostForm.Meta: exclude = ('author',)
PostFormFields == PostFields \ {"author"}

\* CommentForm.Meta: fields = ('text',)
CommentFormFields == {"text"}

\* ModelForm: the instance with the form's fields taken from the data
BoundForm(instance, data, fields) ==
    [f \in DOMAIN instance |-> IF f \in fields THEN data[f] ELSE instance[f]]

\* the instances a CreateView starts from
BlankPost == [author |-> Anonymous, pub_date |-> 0, is_published |-> TRUE,
              category |-> "open"]
BlankComment == [author |-> Anonymous, post |-> 0, text |-> "a"]

\* a registered user other than u
OtherUser(u) == CHOOSE v \in Users : v # u

\* what a client may submit to a post form: any value for every field of the
\* model, the author included (a user other than the client itself)
PostData(u) ==
    [author : {OtherUser(u)}, pub_date : Times, is_published : BOOLEAN,
     category : Slugs]
\* what a client may submit to a comment form: any text, and an author and
\* a post of its own choosing (another user, a post there never was)
CommentData(u) ==
    [author : {OtherUser(u)}, post : {MaxPosts + 1}, text : Texts]

(***************************************************************************)
(* The querysets of the listing pages.                                     *)
(***************************************************************************)
\* the order of order_by('-pub_date'): the later post first, and of two
\* posts of one moment the one with the smaller primary key
Before(p, q) ==
    \/ posts[p].pub_date > posts[q].pub_date
    \/ posts[p].pub_date = posts[q].pub_date /\ p < q

RECURSIVE InsertOrdered(_, _)
InsertOrdered(p, list) ==
    IF list = <<>> THEN <<p>>
    ELSE IF Before(p, Head(list)) THEN <<p>> \o list
    ELSE <<Head(list)>> \o InsertOrdered(p, Tail(list))

\* order_by('-pub_date'): the posts of S, latest first
RECURSIVE OrderByPubDateDesc(_)
OrderByPubDateDesc(S) ==
    IF S = {} THEN <<>>
    ELSE LET p == CHOOSE x \in S : TRUE
         IN  InsertOrdered(p, OrderByPubDateDesc(S \ {p}))

\* index: the filter of post_list
IndexFilter(p) ==
    /\ Date(posts[p].pub_date) <= Date(now)
    /\ posts[p].is_published
    /\ categories[posts[p].category]

\* category_posts: the filter of post_list
CategoryFilter(p, slug) ==
    /\ posts[p].category = slug
    /\ posts[p].is_published
    /\ Date(posts[p].pub_date) <= Date(now)

\* request.user.username: the empty string for AnonymousUser
RequestUsername(u) == IF u = Anonymous THEN "" ELSE username[u]

\* ProfileListView.get_queryset: the filter of either branch
ProfileFilter(p, u, name) ==
    /\ username[posts[p].author] = name
    /\ \/ RequestUsername(u) = name
       \/ posts[p].pub_date <= now

IndexQueryset == OrderByPubDateDesc({p \in DOMAIN posts : IndexFilter(p)})
CategoryQueryset(slug) ==
    OrderByPubDateDesc({p \in DOMAIN posts : CategoryFilter(p, slug)})
ProfileQueryset(u, name) ==
    OrderByPubDateDesc({p \in DOMAIN posts : ProfileFilter(p, u, name)})

(***************************************************************************)
(* Pagination.                                                             *)
(***************************************************************************)
\* Paginator.num_pages: at least one page, the first may be empty
NumPages(list) ==
    IF Len(list) = 0 THEN 1 ELSE (Len(list) + PER_PAGE - 1) \div PER_PAGE

\* Paginator.page: a mutant whose pages overlap by one post
PageOf_Overlap(list, k) ==
    SubSeq(list, Min((k - 1) * (PER_PAGE - 1), Len(list)) + 1,
                 Min((k - 1) * (PER_PAGE - 1) + PER_PAGE, Len(list)))
\* Paginator.page(k): object_list[bottom:top]
PageOf(list, k) ==
    LET bottom == (k - 1) * PER_PAGE
        top == Min(bottom + PER_PAGE, Len(list))
    IN  SubSeq(list, bottom + 1, top)

\* Paginator.get_page(request.GET.get('page')): no number is page 1, a
\* number out of range is the last page
GetPage(list, pageno) ==
    LET k == IF pageno = <<>> THEN 1
             ELSE IF pageno[1] < 1 \/ pageno[1] > NumPages(list)
                  THEN NumPages(list)
                  ELSE pageno[1]
    IN  Listing(PageOf(list, k), k, NumPages(list))

\* ListView.paginate_queryset with paginate_by = 10: no number is page 1, a
\* number out of range is 'not found'
PaginateQueryset(list, pageno) ==
    LET k == IF pageno = <<>> THEN 1 ELSE pageno[1]
    IN  IF k < 1 \/ k > NumPages(list)
        THEN NotFound
        ELSE Listing(PageOf(list, k), k, NumPages(list))

(***************************************************************************)
(* The checks the handlers make before they act.                           *)
(***************************************************************************)
\* LoginRequiredMixin.dispatch: a mutant that lets everyone through
LoginRequired_Never(u) == FALSE
\* LoginRequiredMixin.dispatch: not request.user.is_authenticated
LoginRequired(u) == u = Anonymous

\* PostDetailView.dispatch: a mutant that hides a hidden post from its author too
PostDetailDenied_AuthorToo(u, post) ==
    \/ post.is_published = FALSE
    \/ categories[post.category] = FALSE
    \/ post.pub_date > now
\* PostDetailView.dispatch: the condition of raise Http404
PostDetailDenied(u, post) ==
    /\ post.author # u
    /\ \/ post.is_published = FALSE
       \/ categories[post.category] = FALSE
       \/ post.pub_date > now

\* PostUpdateView.dispatch: a mutant that lets every logged-in user through
PostUpdateDenied_LoginOnly(u, post) == u = Anonymous
\* PostUpdateView.dispatch: self.request.user != post_.author
PostUpdateDenied(u, post) == u # post.author

\* PostDeleteView.dispatch: instance.author != request.user
PostDeleteDenied(u, post) == post.author # u

\* CommentUpdateView.dispatch: a mutant that checks the post's author instead
CommentUpdateDenied_PostAuthor(u, comment) ==
    ~ (comment.post \in DOMAIN posts /\ posts[comment.post].author = u)
\* CommentUpdateView.dispatch: instance.author != request.user
CommentUpdateDenied(u, comment) == comment.author # u

\* CommentDeleteView.dispatch: instance.author != request.user
CommentDeleteDenied(u, comment) == comment.author # u

(***************************************************************************)
(* What a client sends to a form view: a GET, a POST the form rejects, or  *)
(* a POST with valid data.                                                 *)
(***************************************************************************)
Submissions(dataset) ==
    LET any == CHOOSE d \in dataset : TRUE
    IN  {[method |-> "GET", valid |-> TRUE, data |-> any],
         [method |-> "POST", valid |-> FALSE, data |-> any]}
        \cup {[method |-> "POST", valid |-> TRUE, data |-> d] : d \in dataset}

\* FormMixin: the form is shown (again) on a GET and on a POST it rejects
ShowsForm(form) == form.method = "GET" \/ ~ form.valid

\* the response is recorded
Handle(req, resp) == last' = [req |-> req, resp |-> resp]

\* a request that reads the database and changes nothing
ReadOnly(req, resp) ==
    /\ Handle(req, resp)
    /\ UNCHANGED <<db, now, history>>

(***************************************************************************)
(* The listing pages and the detail page.                                  *)
(***************************************************************************)
\* index(request)
index(u, pageno) ==
    ReadOnly(Request("blog:index", "GET", u, 0, 0, "", pageno),
             GetPage(IndexQueryset, pageno))

\* what PostDetailView answers to user u asking for post pk
PostDetailResponse(u, pk) ==
    IF pk \notin DOMAIN posts THEN NotFound
    ELSE IF PostDetailDenied(u, posts[pk]) THEN NotFound
    ELSE IF LoginRequired(u) THEN Redirect(LoginUrl)
    ELSE Listing(<<pk>>, 1, 1)

\* PostDetailView
PostDetailView(u, pk) ==
    ReadOnly(Request("blog:post_detail", "GET", u, pk, 0, "", <<>>),
             PostDetailResponse(u, pk))

\* category_posts(request, category_slug)
category_posts(u, slug, pageno) ==
    ReadOnly(Request("blog:category_posts", "GET", u, 0, 0, slug, pageno),
             IF slug \in Slugs /\ categories[slug]
             THEN GetPage(CategoryQueryset(slug), pageno)
             ELSE NotFound)

\* ProfileListView
ProfileListView(u, name, pageno) ==
    ReadOnly(Request("blog:profile", "GET", u, 0, 0, name, pageno),
             IF \A v \in Users : username[v] # name
             THEN NotFound
             ELSE PaginateQueryset(ProfileQueryset(u, name), pageno))

(***************************************************************************)
(* The views that change the database.                                     *)
(***************************************************************************)
\* ProfileUpdateView: the form's dataset
ProfileData == [username : Names]

\* what ProfileUpdateView answers
ProfileUpdateResponse(u, form) ==
    IF LoginRequired(u) THEN Redirect(LoginUrl)
    ELSE IF ShowsForm(form) THEN Ok
    ELSE IF form.data.username \in {username[v] : v \in Users \ {u}} THEN Ok
    ELSE Done(ProfileUrl(form.data.username), "updated")

\* ProfileUpdateView
ProfileUpdateView(u, form) ==
    LET req == Request("blog:edit_profile", form.method, u, 0, 0, "", <<>>)
        resp == ProfileUpdateResponse(u, form)
    IN  IF resp.effect = "none" THEN ReadOnly(req, resp)
        ELSE /\ form.data.username # username[u] => renames < MaxRenames
             /\ username' = [username EXCEPT ![u] = form.data.username]
             /\ renames' = IF form.data.username # username[u]
                           THEN renames + 1 ELSE renames
             /\ Handle(req, resp)
             /\ UNCHANGED <<posts, comments, last_post_id, last_comment_id,
                            now, history>>

\* what PostCreateView answers
PostCreateResponse(u, form) ==
    IF LoginRequired(u) THEN Redirect(LoginUrl)
    ELSE IF ShowsForm(form) THEN Ok
    ELSE Done(ProfileUrl(RequestUsername(u)), "created")

\* PostCreateView
PostCreateView(u, form) ==
    LET req == Request("blog:create_post", form.method, u, 0, 0, "", <<>>)
        resp == PostCreateResponse(u, form)
        pk == last_post_id + 1
        instance == [BoundForm(BlankPost, form.data, PostFormFields)
                        EXCEPT !.author = u, !.is_published = TRUE]
    IN  IF resp.effect = "none" THEN ReadOnly(req, resp)
        ELSE /\ last_post_id < MaxPosts
             /\ posts' = posts @@ (pk :> instance)
             /\ last_post_id' = pk
             /\ post_creator' = post_creator @@ (pk :> u)
             /\ Handle(req, resp)
             /\ UNCHANGED <<comments, username, last_comment_id, renames, now,
                            comment_origin>>

\* what PostUpdateView answers
PostUpdateResponse(u, pk, form) ==
    IF pk \notin DOMAIN posts THEN NotFound
    ELSE IF PostUpdateDenied(u, posts[pk]) THEN Redirect(PostDetailUrl(pk))
    ELSE IF LoginRequired(u) THEN Redirect(LoginUrl)
    ELSE IF ShowsForm(form) THEN Ok
    ELSE Done(ProfileUrl(RequestUsername(u)), "updated")

\* PostUpdateView
PostUpdateView(u, pk, form) ==
    LET req == Request("blog:edit_post", form.method, u, pk, 0, "", <<>>)
        resp == PostUpdateResponse(u, pk, form)
    IN  IF resp.effect = "none" THEN ReadOnly(req, resp)
        ELSE /\ posts' = [posts EXCEPT
                            ![pk] = BoundForm(@, form.data, PostFormFields)]
             /\ Handle(req, resp)
             /\ UNCHANGED <<comments, username, last_post_id, last_comment_id,
                            renames, now, history>>

\* the Comment table once post pk is deleted.  The Comment model is not among
\* the sources; a comment is attached to a post, so the comments of a deleted
\* post go with it
OnDeleteCascade(pk) ==
    [c \in {d \in DOMAIN comments : comments[d].post # pk} |-> comments[c]]

\* what PostDeleteView answers
PostDeleteResponse(u, pk, method) ==
    IF pk \notin DOMAIN posts THEN NotFound
    ELSE IF PostDeleteDenied(u, posts[pk]) THEN Redirect(PostDetailUrl(pk))
    ELSE IF LoginRequired(u) THEN Redirect(LoginUrl)
    ELSE IF method = "GET" THEN Ok
    ELSE Done(ProfileUrl(RequestUsername(u)), "deleted")

\* PostDeleteView: the author's GET shows the confirmation page, the author's
\* POST deletes the post
PostDeleteView(u, pk, method) ==
    LET req == Request("blog:delete_post", method, u, pk, 0, "", <<>>)
        resp == PostDeleteResponse(u, pk, method)
    IN  IF resp.effect = "none" THEN ReadOnly(req, resp)
        ELSE /\ posts' = [p \in DOMAIN posts \ {pk} |-> posts[p]]
             /\ comments' = OnDeleteCascade(pk)
             /\ Handle(req, resp)
             /\ UNCHANGED <<username, last_post_id, last_comment_id, renames, now,
                            history>>

\* what CommentCreateView answers
CommentCreateResponse(u, pk, form) ==
    IF pk \notin DOMAIN posts THEN NotFound
    ELSE IF LoginRequired(u) THEN Redirect(LoginUrl)
    ELSE IF ShowsForm(form) THEN Ok
    ELSE Done(PostDetailUrl(pk), "created")

\* CommentCreateView
CommentCreateView(u, pk, form) ==
    LET req == Request("blog:add_comment", form.method, u, pk, 0, "", <<>>)
        resp == CommentCreateResponse(u, pk, form)
        cid == last_comment_id + 1
        instance == [BoundForm(BlankComment, form.data, CommentFormFields)
                        EXCEPT !.author = u, !.post = pk]
    IN  IF resp.effect = "none" THEN ReadOnly(req, resp)
        ELSE /\ last_comment_id < MaxComments
             /\ comments' = comments @@ (cid :> instance)
             /\ last_comment_id' = cid
             /\ comment_origin' = comment_origin @@ (cid :> [user |-> u, pk |-> pk])
             /\ Handle(req, resp)
             /\ UNCHANGED <<posts, username, last_post_id, renames, now, post_creator>>

\* what CommentUpdateView answers
CommentUpdateResponse(u, pk, cid, form) ==
    IF cid \notin DOMAIN comments THEN NotFound
    ELSE IF CommentUpdateDenied(u, comments[cid]) THEN Redirect(PostDetailUrl(pk))
    ELSE IF LoginRequired(u) THEN Redirect(LoginUrl)
    ELSE IF ShowsForm(form) THEN Ok
    ELSE Done(PostDetailUrl(
                 BoundForm(comments[cid], form.data, CommentFormFields).post),
              "updated")

\* CommentUpdateView
CommentUpdateView(u, pk, cid, form) ==
    LET req == Request("blog:edit_comment", form.method, u, pk, cid, "", <<>>)
        resp == CommentUpdateResponse(u, pk, cid, form)
    IN  IF resp.effect = "none" THEN ReadOnly(req, resp)
        ELSE /\ comments' = [comments EXCEPT
                               ![cid] = BoundForm(@, form.data, CommentFormFields)]
             /\ Handle(req, resp)
             /\ UNCHANGED <<posts, username, last_post_id, last_comment_id,
                            renames, now, history>>

\* what CommentDeleteView answers
CommentDeleteResponse(u, pk, cid, method) ==
    IF cid \notin DOMAIN comments THEN NotFound
    ELSE IF CommentDeleteDenied(u, comments[cid]) THEN Redirect(PostDetailUrl(pk))
    ELSE IF LoginRequired(u) THEN Redirect(LoginUrl)
    ELSE IF method = "GET" THEN Ok
    ELSE Done(IndexUrl, "deleted")

\* CommentDeleteView
CommentDeleteView(u, pk, cid, method) ==
    LET req == Request("blog:delete_comment", method, u, pk, cid, "", <<>>)
        resp == CommentDeleteResponse(u, pk, cid, method)
    IN  IF resp.effect = "none" THEN ReadOnly(req, resp)
        ELSE /\ comments' = [c \in DOMAIN comments \ {cid} |-> comments[c]]
             /\ Handle(req, resp)
             /\ UNCHANGED <<posts, username, last_post_id, last_comment_id,
                            renames, now, history>>

\* time passes between two requests
Tick ==
    /\ now < LastTick
    /\ now' = now + 1
    /\ last' = NoRequest
    /\ UNCHANGED <<db, history>>

(***************************************************************************)
(* The site: an empty blog with its registered users, and any request at   *)
(* any moment.                                                             *)
(***************************************************************************)
Init ==
    /\ posts = <<>>
    /\ comments = <<>>
    /\ username = (1 :> "ann") @@ (2 :> "bob")
    /\ last_post_id = 0
    /\ last_comment_id = 0
    /\ renames = 0
    /\ now = 0
    /\ last = NoRequest
    /\ post_creator = <<>>
    /\ comment_origin = <<>>

\* the primary keys a URL may name: those of the posts and comments there
\* have been, and for the post of a comment's URL one there never was
PostPks == 1..MaxPosts
UrlPks == 1..(MaxPosts + 1)
CommentPks == 1..MaxComments

Next ==
    \/ \E u \in Requesters : index(u, <<>>)
    \/ \E u \in Requesters, pk \in PostPks : PostDetailView(u, pk)
    \/ \E u \in Requesters, slug \in Slugs \cup {NoSlug} : category_posts(u, slug, <<>>)
    \/ \E u \in Requesters, name \in Names : ProfileListView(u, name, <<>>)
    \/ \E u \in Requesters, form \in Submissions(ProfileData) : ProfileUpdateView(u, form)
    \/ \E u \in Requesters : \E form \in Submissions(PostData(u)) : PostCreateView(u, form)
    \/ \E u \in Requesters, pk \in PostPks : \E form \in Submissions(PostData(u)) :
          PostUpdateView(u, pk, form)
    \/ \E u \in Requesters, pk \in PostPks, method \in Methods :
          PostDeleteView(u, pk, method)
    \/ \E u \in Requesters, pk \in PostPks : \E form \in Submissions(CommentData(u)) :
          CommentCreateView(u, pk, form)
    \/ \E u \in Requesters, pk \in UrlPks, cid \in CommentPks :
          \E form \in Submissions(CommentData(u)) : CommentUpdateView(u, pk, cid, form)
    \/ \E u \in Requesters, pk \in UrlPks, cid \in CommentPks, method \in Methods :
          CommentDeleteView(u, pk, cid, method)
    \/ Tick

Spec == Init /\ [][Next]_vars

(***************************************************************************)
(* The listing pages of a blog with many posts: the database is one of a   *)
(* family of blogs of up to PageMaxPosts posts, and the requests are those *)
(* to the three listing pages, with and without a page number.             *)
(***************************************************************************)
\* post i of blog m: blog 0 has one author, every post visible and later
\* than the one before; blog 1 has two authors, posts published in pairs at
\* one moment, every third post hidden and every fourth in a hidden category
PaginatePost(m, i) ==
    [author |-> IF m = 0 THEN 1 ELSE 1 + (i % 2),
     pub_date |-> IF m = 0 THEN i ELSE i \div 2,
     is_published |-> (m = 0 \/ i % 3 # 0),
     category |-> IF m # 0 /\ i % 4 = 0 THEN "closed" ELSE "open"]

InitPaginate ==
    \E n \in 0..PageMaxPosts, m \in {0, 1} :
        /\ posts = [i \in 1..n |-> PaginatePost(m, i)]
        /\ comments = <<>>
        /\ username = (1 :> "ann") @@ (2 :> "bob")
        /\ last_post_id = n
        /\ last_comment_id = 0
        /\ renames = 0
        /\ now \in {n \div 2, n}
        /\ last = NoRequest
        /\ post_creator = [i \in 1..n |-> PaginatePost(m, i).author]
        /\ comment_origin = <<>>

\* request.GET.get('page'): absent, or a number
PageArgs == {<<>>} \cup {<<k>> : k \in 0..MaxPageArg}

NextPaginate ==
    \/ \E pageno \in PageArgs : index(Anonymous, pageno)
    \/ \E slug \in Slugs \cup {NoSlug}, pageno \in PageArgs :
          category_posts(Anonymous, slug, pageno)
    \/ \E u \in {Anonymous, 1}, name \in Names, pageno \in PageArgs :
          ProfileListView(u, name, pageno)

SpecPaginate == InitPaginate /\ [][NextPaginate]_vars

(***************************************************************************)
(* The claims.                                                             *)
(***************************************************************************)
\* the publish-date/visibility filter as the claims state it: visibility
\* flag on, category's visibility flag on, publish date not later than now
PassesFilter(p) ==
    /\ posts[p].is_published
    /\ categories[posts[p].category]
    /\ posts[p].pub_date <= now

\* the posts on the page just served
Listed == {last.resp.page[i] : i \in 1..Len(last.resp.page)}

PostWriteViews == {"blog:edit_post", "blog:delete_post"}
CommentWriteViews == {"blog:edit_comment", "blog:delete_comment"}
WriteViews ==
    {"blog:create_post", "blog:add_comment", "blog:edit_profile"}
        \cup PostWriteViews \cup CommentWriteViews

\* C1: a request to the post edit or post delete endpoint by anyone but the
\* post's author (logged in or not, GET or POST) leaves the post as it is and
\* is answered with a redirect to the post's detail page; and whatever
\* request changes or deletes a post was issued by the post's author.
C1_PostChangedOnlyByAuthor ==
    [][\A p \in DOMAIN posts :
          /\ ( /\ last'.req.view \in PostWriteViews
               /\ last'.req.pk = p
               /\ last'.req.user # posts[p].author )
             => /\ p \in DOMAIN posts'
                /\ posts'[p] = posts[p]
                /\ last'.resp.status = "redirect"
                /\ last'.resp.to = PostDetailUrl(p)
          /\ (p \notin DOMAIN posts' \/ posts'[p] # posts[p])
             => last'.req.user = posts[p].author]_vars

\* C1's case: a logged-in user who is not the author has just POSTed to the
\* edit endpoint of an existing post
C1_Witness ==
    /\ last.req.view = "blog:edit_post"
    /\ last.req.method = "POST"
    /\ last.req.pk \in DOMAIN posts
    /\ last.req.user \in Users
    /\ last.req.user # posts[last.req.pk].author
    /\ last.resp.status = "redirect"

\* what C2 says of one step and one comment c about the requests to the
\* comment endpoints
C2_NonAuthorRefused(c) ==
    ( /\ last'.req.view \in CommentWriteViews
      /\ last'.req.cid = c
      /\ last'.req.user # comments[c].author )
    => /\ c \in DOMAIN comments'
       /\ comments'[c] = comments[c]
       /\ last'.resp.status = "redirect"
       /\ last'.resp.to = PostDetailUrl(last'.req.pk)

C3_DetailNotFoundIffHiddenFromStranger ==
    ( /\ last.req.view = "blog:post_detail"
      /\ last.req.user \in Users
      /\ last.req.pk \in DOMAIN posts )
    => /\ last.resp.status = "notfound"
          <=> ( /\ last.req.user # posts[last.req.pk].author
                /\ ~ PassesFilter(last.req.pk) )
       /\ last.req.user = posts[last.req.pk].author
          => (last.resp.status = "ok" /\ last.resp.page = <<last.req.pk>>)

\* C3's case: the author has just been served their own hidden post
C3_Witness ==
    /\ last.req.view = "blog:post_detail"
    /\ last.req.pk \in DOMAIN posts
    /\ last.req.user = posts[last.req.pk].author
    /\ ~ PassesFilter(last.req.pk)
    /\ last.resp.status = "ok"

\* C4: every post listed on the index page or on a category page has its
\* visibility flag on, a category whose flag is on and a publish date not
\* later than now; a category page of a category that does not exist or whose
\* flag is off answers 'not found' and lists nothing.
C4_ListedPostsPassFilter ==
    /\ last.req.view \in {"blog:index", "blog:category_posts"}
       => \A p \in Listed : PassesFilter(p)
    /\ ( /\ last.req.view = "blog:category_posts"
         /\ (last.req.arg \notin Slugs \/ ~ categories[last.req.arg]) )
       => (last.resp.status = "notfound" /\ Listed = {})

\* C5: the profile page of user U shows U all of U's posts, and anyone else
\* those of U's posts that pass the filter; it never lists a post of another
\* author, and answers 'not found' when no user has the username.
C5_ProfileListsFilteredPosts ==
    last.req.view = "blog:profile"
    => LET owners == {v \in Users : username[v] = last.req.arg}
       IN  /\ owners = {} => last.resp.status = "notfound"
           /\ \A U \in owners :
                 /\ last.resp.status = "ok"
                 /\ Listed =
                      IF last.req.user = U
                      THEN {p \in DOMAIN posts : posts[p].author = U}
                      ELSE {p \in DOMAIN posts :
                               posts[p].author = U /\ PassesFilter(p)}

ListingViews == {"blog:index", "blog:category_posts", "blog:profile"}

\* the post list behind the listing page just served
ServedList ==
    IF last.req.view = "blog:index" THEN IndexQueryset
    ELSE IF last.req.view = "blog:category_posts"
    THEN CategoryQueryset(last.req.arg)
    ELSE ProfileQueryset(last.req.user, last.req.arg)

\* the posts the same listing page shows when asked for page k
ServedPage(k) ==
    IF last.req.view = "blog:profile"
    THEN PaginateQueryset(ServedList, <<k>>).page
    ELSE GetPage(ServedList, <<k>>).page

RECURSIVE ServedPagesUpTo(_)
ServedPagesUpTo(k) ==
    IF k = 0 THEN <<>> ELSE ServedPagesUpTo(k - 1) \o ServedPage(k)

\* C6: the pages of a listing page cut its post list, taken latest first,
\* into consecutive chunks of 10: no page has more than 10 posts, every page
\* but the last has exactly 10, no post is on two pages, and pages 1..n one
\* after the other are the list.
C6_PagesPartitionList ==
    (last.req.view \in ListingViews /\ last.resp.status = "ok")
    => LET list == ServedList
           n == last.resp.num_pages
       IN  /\ \A i, j \in 1..Len(list) :
                 i < j => posts[list[i]].pub_date >= posts[list[j]].pub_date
           /\ n >= 1
           /\ 10 * (n - 1) < Len(list) \/ (n = 1 /\ Len(list) = 0)
           /\ Len(list) <= 10 * n
           /\ \A k \in 1..n :
                 /\ Len(ServedPage(k)) <= 10
                 /\ k < n => Len(ServedPage(k)) = 10
           /\ \A k1, k2 \in 1..n :
                 k1 # k2 =>
                    \A i \in 1..Len(ServedPage(k1)), j \in 1..Len(ServedPage(k2)) :
                       ServedPage(k1)[i] # ServedPage(k2)[j]
           /\ ServedPagesUpTo(n) = list
           /\ last.resp.number \in 1..n
           /\ last.resp.page = ServedPage(last.resp.number)

\* C6's case: the second of three pages of the index page has just been served
C6_Witness ==
    /\ last.req.view = "blog:index"
    /\ last.req.pageno = <<2>>
    /\ last.resp.num_pages = 3
    /\ Len(last.resp.page) = 10

\* an unauthenticated client's request to a write endpoint changes nothing
C7_AnonymousChangesNothing ==
    (last'.req.user = Anonymous /\ last'.req.view \in WriteViews)
    => UNCHANGED <<posts, comments, username>>

\* whatever request changes a post, a comment or an account was logged in
C7_ChangedByUsers ==
    (<<posts, comments, username>>' # <<posts, comments, username>>)
    => last'.req.user \in Users

\* C7 as stated: a request of an unauthenticated client to a write endpoint is
\* answered with a redirect and changes nothing stored; whatever request
\* creates, changes or deletes a post, a comment or an account was logged in.
C7_Original ==
    [][/\ C7_AnonymousChangesNothing
       /\ C7_ChangedByUsers
       /\ (last'.req.user = Anonymous /\ last'.req.view \in WriteViews)
          => last'.resp.status = "redirect"]_vars

\* C7 as amended: as C7, but the answer is 'not found' in place of a redirect
\* when the post or the comment the URL names does not exist.
C7_OnlyUsersChangeData ==
    [][/\ C7_AnonymousChangesNothing
       /\ C7_ChangedByUsers
       /\ (last'.req.user = Anonymous /\ last'.req.view \in WriteViews)
          => \/ last'.resp.status = "redirect"
             \/ /\ last'.resp.status = "notfound"
                /\ \/ /\ last'.req.view \in PostWriteViews \cup {"blog:add_comment"}
                      /\ last'.req.pk \notin DOMAIN posts
                   \/ /\ last'.req.view \in CommentWriteViews
                      /\ last'.req.cid \notin DOMAIN comments]_vars

\* C7's case: an unauthenticated client has just POSTed a comment to an
\* existing post
C7_Witness ==
    /\ last.req.view = "blog:add_comment"
    /\ last.req.method = "POST"
    /\ last.req.user = Anonymous
    /\ last.req.pk \in DOMAIN posts
    /\ last.resp.status = "redirect"

\* C8: a post listed on the index page or on a category page is, at the same
\* moment, served by the detail page to every logged-in user.
C8_ListedPostsAreServed ==
    last.req.view \in {"blog:index", "blog:category_posts"}
    => \A p \in Listed, u \in Users :
          PostDetailResponse(u, p).status # "notfound"

\* C9: a comment is created only on a post its author may see on the detail
\* page at that moment: the commenting user is the post's author, or the post
\* passes the filter.
C9_CommentOnlyOnVisiblePost ==
    [][\A c \in DOMAIN comments' \ DOMAIN comments :
          LET p == comments'[c].post
          IN  /\ p \in DOMAIN posts
              /\ \/ posts[p].author = comments'[c].author
                 \/ PassesFilter(p)]_vars

\* C10: the author of every post is the user whose request created it, and
\* the author and the post of every comment are the user and the URL's post of
\* the request that created it, whatever has been edited since.
C10_AuthorAndPostAsCreated ==
    /\ \A p \in DOMAIN posts : posts[p].author = post_creator[p]
    /\ \A c \in DOMAIN comments :
          /\ comments[c].author = comment_origin[c].user
          /\ comments[c].post = comment_origin[c].pk

\* C10's case: the author has just changed a post with a form that names
\* another author
C10_Witness ==
    /\ last.req.view = "blog:edit_post"
    /\ last.resp.effect = "updated"
    /\ last.req.pk \in DOMAIN posts
    /\ DOMAIN comments # {}

====
